---- MODULE Spec2Model ----
(***************************************************************************)
(* BearSSLClient (src/src/BearSSLClient.cpp): a TLS client session that    *)
(* drives a BearSSL engine over a blocking Arduino Client stream.          *)
(*                                                                         *)
(* The session is single-threaded and blocking.  pc is the position of the *)
(* one caller: "idle" between calls, "poll" inside connectSSL's wait loop, *)
(* "write_loop"/"write_tail" inside write(buf, size).  Every call the code *)
(* makes on a collaborator (raw stream, hardware provider, engine, record  *)
(* I/O adapter) is appended to ops, the log of the call in progress, with  *)
(* the value the collaborator returned.                                    *)
(***************************************************************************)
EXTENDS Integers, Sequences, FiniteSets

VARIABLES
    pc,            \* position of the caller
    rawConnected,  \* _client->connected()
    engState,      \* br_ssl_engine_current_state(&_sc.eng)
    eng,           \* configuration held by _sc / _xc / _ioc
    ecKey,         \* _ecKey  (curve, x = key slot, xlen)
    ecCert,        \* _ecCert (data_len)
    outBuf,        \* plaintext accepted by the adapter, not yet flushed
    inBuf,         \* plaintext received from the peer, not yet read
    wbuf,          \* write(): the caller's buffer (buf[0..size-1])
    boff,          \* write(): how far buf has been advanced
    written,       \* write(): the local 'written'
    stall,         \* write(): calls in a row the adapter took nothing from
    rx,            \* bytes handed to the caller by read() since the last write()
    rtClean,       \* the last write() started on an established, drained session
    lastCall,      \* name of the last public call
    ret,           \* its return value
    ops            \* collaborator calls made by it, in order

vars == <<pc, rawConnected, engState, eng, ecKey, ecCert, outBuf, inBuf,
          wbuf, boff, written, stall, rx, rtClean, lastCall, ret, ops>>

---------------------------------------------------------------------------
(* Bounds of the model *)

MaxLen == 2        \* longest buffer handed to write() / read()
MaxCertLen == 1    \* longest certLength handed to setEccSlot
MaxPending == 0    \* write() is called with at most this many bytes pending
MaxStall == 1      \* calls in a row from which the adapter takes nothing

Byte == 0 .. 1
Hosts == {"iot.example"}
Slots == {5}

---------------------------------------------------------------------------
(* Program constants *)

BR_SSL_CLOSED == 1
BR_SSL_SENDREC == 2
BR_SSL_SENDAPP == 8
BR_SSL_RECVAPP == 16
EntropyLen == 32       \* sizeof(entropy)
EcCurve == 23          \* _ecKey.curve set by setEccSlot
EcKeyLen == 32         \* _ecKey.xlen set by setEccSlot

\* state & bit, for a single-bit mask
HasBit(state, bit) == (state \div bit) % 2 = 1

\* The values br_ssl_engine_current_state can return: BR_SSL_CLOSED alone
\* when the engine is closed, else any combination of the other bits
\* (BR_SSL_SENDREC stands for the record-level bits, which the session
\* never tests).
OpenBits == {BR_SSL_SENDREC, BR_SSL_SENDAPP, BR_SSL_RECVAPP}

RECURSIVE BitSum(_)
BitSum(S) == IF S = {} THEN 0
             ELSE LET b == CHOOSE x \in S : TRUE IN b + BitSum(S \ {b})

OpenStates == {BitSum(S) : S \in SUBSET OpenBits}

EngineStates == {BR_SSL_CLOSED} \cup OpenStates

\* br_sslio_flush run on an engine in state st: <<result, state left>>.  It
\* fails (negative) exactly when it leaves the engine closed; it cannot
\* succeed on a closed engine, nor when pending output cannot reach the
\* stream.
FlushOutcomes(st, canSend) ==
    {<<-1, BR_SSL_CLOSED>>} \cup
    (IF st = BR_SSL_CLOSED \/ ~canSend THEN {}
     ELSE {<<0, s>> : s \in OpenStates})

---------------------------------------------------------------------------
(* The call log *)

\* one collaborator call: op its name, n the value it returned (or its main
\* numeric argument when it returns nothing), a a numeric argument, s a
\* string argument
Op(o, n, a, s) == [op |-> o, n |-> n, a |-> a, s |-> s]

RECURSIVE CountOp(_, _)
CountOp(log, o) ==
    IF log = <<>> THEN 0
    ELSE (IF Head(log).op = o THEN 1 ELSE 0) + CountOp(Tail(log), o)

\* index of the first call of o in log, 0 when there is none
RECURSIVE IndexFrom(_, _, _)
IndexFrom(log, o, i) ==
    IF i > Len(log) THEN 0
    ELSE IF log[i].op = o THEN i
    ELSE IndexFrom(log, o, i + 1)
IndexOf(log, o) == IndexFrom(log, o, 1)

Bool(b) == IF b THEN 1 ELSE 0

---------------------------------------------------------------------------
(* The engine configuration and the operations connectSSL applies to it *)

\* the context as the constructor leaves it: nothing configured
Unconfigured ==
    [profile |-> "", bufMode |-> 0, vrfy |-> "", sign |-> "",
     clientCert |-> FALSE, certLen |-> 0, keySlot |-> 0,
     entropyCount |-> 0, entropyLen |-> 0, entropySrc |-> "",
     resetDone |-> FALSE, seededAtReset |-> FALSE, host |-> "",
     bound |-> FALSE]

\* the effect of one logged call on the configuration
ApplyOp(cfg, o) ==
    CASE o.op = "arduino_client_profile" ->
            [Unconfigured EXCEPT !.profile = o.s, !.vrfy = "default"]
      [] o.op = "br_ssl_engine_set_buffer" ->
            [cfg EXCEPT !.bufMode = o.a]
      [] o.op = "br_ssl_engine_set_ecdsa" ->
            [cfg EXCEPT !.vrfy = o.s]
      [] o.op = "br_ssl_client_set_single_ec" ->
            [cfg EXCEPT !.clientCert = TRUE, !.sign = o.s,
                        !.certLen = o.n, !.keySlot = o.a]
      [] o.op = "br_ssl_engine_inject_entropy" ->
            [cfg EXCEPT !.entropyCount = @ + 1, !.entropyLen = o.n,
                        !.entropySrc = o.s]
      [] o.op = "br_ssl_client_reset" ->
            [cfg EXCEPT !.resetDone = TRUE,
                        !.seededAtReset = (cfg.entropyCount > 0),
                        !.host = o.s]
      [] o.op = "br_sslio_init" ->
            [cfg EXCEPT !.bound = TRUE]
      [] OTHER -> cfg

RECURSIVE ApplyOps(_, _)
ApplyOps(cfg, log) ==
    IF log = <<>> THEN cfg
    ELSE ApplyOps(ApplyOp(cfg, Head(log)), Tail(log))

---------------------------------------------------------------------------
(* Init: the state the constructor leaves *)

Init ==
    /\ pc = "idle"
    /\ rawConnected = FALSE
    /\ engState \in EngineStates      \* _sc is not initialised by the constructor
    /\ eng = Unconfigured
    /\ ecKey = [curve |-> 0, x |-> 0, xlen |-> 0]
    /\ ecCert = [data_len |-> 0]
    /\ outBuf = <<>>
    /\ inBuf = <<>>
    /\ wbuf = <<>>
    /\ boff = 0
    /\ written = 0
    /\ stall = 0
    /\ rx = <<>>
    /\ rtClean = FALSE
    /\ lastCall = "none"
    /\ ret = 0
    /\ ops = <<>>

---------------------------------------------------------------------------
(* setEccSlot *)

\* lines 163-172; certLength is a length, so the caller passes 0 or more
SetEccSlot ==
    /\ pc = "idle"
    /\ \E slot \in Slots, certLength \in 0 .. MaxCertLen :
          /\ ecKey' = [curve |-> EcCurve, x |-> slot, xlen |-> EcKeyLen]
          /\ ecCert' = [data_len |-> certLength]
    /\ lastCall' = "setEccSlot"
    /\ ret' = 0
    /\ ops' = <<>>
    /\ UNCHANGED <<pc, rawConnected, engState, eng, outBuf, inBuf,
                   wbuf, boff, written, stall, rx, rtClean>>

---------------------------------------------------------------------------
(* connect / connectSSL *)

\* the && chain without its last operand: a failed random() goes unnoticed
HwEntropyOkRandomUnchecked(hwBegin, hwLocked, hwRandom) == hwBegin /\ hwLocked

\* line 189: ECCX08.begin() && ECCX08.locked() && ECCX08.random(...)
HwEntropyOk(hwBegin, hwLocked, hwRandom) == hwBegin /\ hwLocked /\ hwRandom

\* the provider calls the && chain of line 189 makes, with their results
HwCalls(hwBegin, hwLocked, hwRandom) ==
    <<Op("ECCX08.begin", Bool(hwBegin), 0, "")>>
    \o (IF hwBegin
        THEN <<Op("ECCX08.locked", Bool(hwLocked), 0, "")>>
             \o (IF hwLocked
                 THEN <<Op("ECCX08.random", Bool(hwRandom), EntropyLen, "")>>
                 ELSE <<>>)
        ELSE <<>>)

\* the test of line 193 without the certificate length
ClientAuthKeyOnly == ecKey.xlen # 0

\* line 193: _ecCert.data_len && _ecKey.xlen
ClientAuthConfigured == ecCert.data_len # 0 /\ ecKey.xlen # 0

\* the branch of lines 189-201 with the certificate registration moved out
\* of the hardware branch: it is registered whenever it is configured
EntropyBranchCertAnyway(hwBegin, hwLocked, hwRandom) ==
    (IF HwEntropyOk(hwBegin, hwLocked, hwRandom)
     THEN <<Op("br_ssl_engine_set_ecdsa", 0, 0, "eccX08_vrfy_asn1")>>
     ELSE <<Op("random", 0, EntropyLen, "")>>)
    \o (IF ClientAuthConfigured
        THEN <<Op("br_ssl_client_set_single_ec", ecCert.data_len,
                  ecKey.x, "eccX08_sign_asn1")>>
        ELSE <<>>)

\* lines 189-201: the branch taken after the hardware RNG attempt
EntropyBranch(hwBegin, hwLocked, hwRandom) ==
    IF HwEntropyOk(hwBegin, hwLocked, hwRandom)
    THEN <<Op("br_ssl_engine_set_ecdsa", 0, 0, "eccX08_vrfy_asn1")>>
         \o (IF ClientAuthConfigured
             THEN <<Op("br_ssl_client_set_single_ec", ecCert.data_len,
                       ecKey.x, "eccX08_sign_asn1")>>
             ELSE <<>>)
    ELSE <<Op("random", 0, EntropyLen, "")>>

\* where the bytes of entropy[] come from when line 202 runs
EntropySource(hwBegin, hwLocked, hwRandom) ==
    IF HwEntropyOk(hwBegin, hwLocked, hwRandom) THEN "hw" ELSE "sw"

\* a connectSSL that configures the engine the first time only and merely
\* resets an engine that was configured before
ConfigCallsFirstTimeOnly(host, hwBegin, hwLocked, hwRandom) ==
    IF eng.bound
    THEN <<Op("br_ssl_client_reset", 0, 0, host)>>
    ELSE <<Op("arduino_client_profile", 0, 0, "TA0"),
           Op("br_ssl_engine_set_buffer", 0, 1, "")>>
         \o HwCalls(hwBegin, hwLocked, hwRandom)
         \o EntropyBranch(hwBegin, hwLocked, hwRandom)
         \o <<Op("br_ssl_engine_inject_entropy", EntropyLen, 0,
                 EntropySource(hwBegin, hwLocked, hwRandom)),
              Op("br_ssl_client_reset", 0, 0, host),
              Op("br_sslio_init", 0, 0, "")>>

\* lines 181-208: the configuration calls of connectSSL, in program order
ConfigCalls(host, hwBegin, hwLocked, hwRandom) ==
    <<Op("arduino_client_profile", 0, 0, "TA0"),
      Op("br_ssl_engine_set_buffer", 0, 1, "")>>
    \o HwCalls(hwBegin, hwLocked, hwRandom)
    \o EntropyBranch(hwBegin, hwLocked, hwRandom)
    \o <<Op("br_ssl_engine_inject_entropy", EntropyLen, 0,
            EntropySource(hwBegin, hwLocked, hwRandom)),
         Op("br_ssl_client_reset", 0, 0, host),
         Op("br_sslio_init", 0, 0, "")>>

\* the outcomes of the three provider calls of line 189; a call the &&
\* chain does not make has no outcome
HwOutcomes ==
    {h \in [begin : BOOLEAN, locked : BOOLEAN, random : BOOLEAN] :
        (h.locked => h.begin) /\ (h.random => h.locked)}

\* a board without the hardware provider
NoProvider == [begin |-> FALSE, locked |-> FALSE, random |-> FALSE]

\* lines 174-210: connectSSL up to and including the br_sslio_flush, after
\* which the caller sits at the head of the poll loop.  The flush runs the
\* handshake over the blocking stream; the state it leaves is the engine's.
ConnectSSL(host, first, boards) ==
    \E hw \in boards, f \in FlushOutcomes(0, TRUE) :
        LET cfgCalls == ConfigCalls(host, hw.begin, hw.locked, hw.random) IN
        /\ eng' = ApplyOps(eng, cfgCalls)
        /\ engState' = f[2]
        /\ ops' = first \o cfgCalls \o <<Op("br_sslio_flush", f[1], 0, "")>>
        /\ outBuf' = <<>>
        /\ inBuf' = <<>>
        /\ pc' = "poll"

\* a connect that initialises the engine profile before it looks at the
\* result of the raw connect
ConnectRefusedAfterInit(host) ==
    /\ ret' = 0
    /\ ops' = <<Op("client.connect", 0, 0, host),
                Op("arduino_client_profile", 0, 0, "TA0")>>
    /\ eng' = ApplyOp(eng, Op("arduino_client_profile", 0, 0, "TA0"))
    /\ UNCHANGED <<pc, engState, outBuf, inBuf>>

\* lines 44-46 and 53-55: the raw connect failed
ConnectRefused(host) ==
    /\ ret' = 0
    /\ ops' = <<Op("client.connect", 0, 0, host)>>
    /\ UNCHANGED <<pc, engState, eng, outBuf, inBuf>>

\* lines 42-58: connect(ip, port) and connect(host, port); host = "" is NULL
Connect(name, host, boards) ==
    /\ pc = "idle"
    /\ lastCall' = name
    /\ \E rawOk \in BOOLEAN :
          /\ rawConnected' = rawOk
          /\ IF ~rawOk
             THEN ConnectRefused(host)
             ELSE /\ ret' = 0
                  /\ ConnectSSL(host, <<Op("client.connect", 1, 0, host)>>,
                                boards)
    /\ wbuf' = <<>>
    /\ boff' = 0
    /\ written' = 0
    /\ stall' = 0
    /\ rx' = <<>>
    /\ rtClean' = FALSE
    /\ UNCHANGED <<ecKey, ecCert>>

ConnectIp == Connect("connect_ip", "", HwOutcomes)

ConnectHost == \E h \in Hosts : Connect("connect_host", h, HwOutcomes)

\* connect(ip, port) on a board without the hardware provider
ConnectPlain == Connect("connect_ip", "", {NoProvider})

\* a loop that gives up as soon as the engine is not ready to send
PollOutcomeGivesUp(state) ==
    IF HasBit(state, BR_SSL_SENDAPP) THEN "break" ELSE "return 0"

\* line 217: state & BR_SSL_CLOSED
PollSeesClosed(state) == HasBit(state, BR_SSL_CLOSED)

\* lines 215-219: what one polled state makes the loop do
PollOutcome(state) ==
    IF HasBit(state, BR_SSL_SENDAPP) THEN "break"
    ELSE IF PollSeesClosed(state) THEN "return 0"
    ELSE "again"

\* a poll loop that stops the raw stream before it reports the failure
PollStepStopsStream ==
    /\ pc = "poll"
    /\ LET state == engState
           polled == Op("br_ssl_engine_current_state", state, 0, "")
       IN
       CASE PollOutcome(state) = "break" ->
              /\ pc' = "idle"
              /\ ret' = 1
              /\ ops' = Append(ops, polled)
              /\ UNCHANGED rawConnected
         [] PollOutcome(state) = "return 0" ->
              /\ pc' = "idle"
              /\ ret' = 0
              /\ ops' = ops \o <<polled, Op("client.stop", 0, 0, "")>>
              /\ rawConnected' = FALSE
         [] OTHER -> UNCHANGED <<pc, ret, ops, rawConnected>>
    /\ UNCHANGED <<engState, eng, ecKey, ecCert, outBuf, inBuf, wbuf, boff,
                   written, stall, rx, rtClean, lastCall>>

\* lines 212-222: one turn of the poll loop; the turn that leaves the loop
\* is the one logged
PollStep ==
    /\ pc = "poll"
    /\ LET state == engState
           polled == Op("br_ssl_engine_current_state", state, 0, "")
       IN
       CASE PollOutcome(state) = "break" ->
              /\ pc' = "idle"
              /\ ret' = 1
              /\ ops' = Append(ops, polled)
         [] PollOutcome(state) = "return 0" ->
              /\ pc' = "idle"
              /\ ret' = 0
              /\ ops' = Append(ops, polled)
         [] OTHER -> UNCHANGED <<pc, ret, ops>>
    /\ UNCHANGED <<rawConnected, engState, eng, ecKey, ecCert, outBuf, inBuf,
                   wbuf, boff, written, stall, rx, rtClean, lastCall>>

---------------------------------------------------------------------------
(* stop / connected *)

\* stop() shutting TLS down only on a session that is ready to send
StopNeedsCloseWhenReady(state) == HasBit(state, BR_SSL_SENDAPP)

\* line 135: (state & BR_SSL_CLOSED) == 0
StopNeedsClose(state) == ~HasBit(state, BR_SSL_CLOSED)

\* stop() tearing the transport down before the TLS close
StopCallsTransportFirst(state) ==
    IF StopNeedsClose(state)
    THEN <<Op("client.stop", 0, 0, ""), Op("br_sslio_close", 0, 0, "")>>
    ELSE <<Op("client.stop", 0, 0, "")>>

\* lines 135-139: the calls stop() makes once the stream reported connected
\* and the engine reported state
StopCalls(state) ==
    IF StopNeedsClose(state)
    THEN <<Op("br_sslio_close", 0, 0, ""), Op("client.stop", 0, 0, "")>>
    ELSE <<Op("client.stop", 0, 0, "")>>

\* stop() without the test of line 134
StopActsAlways(streamConnected) == TRUE

\* line 134: stop() acts only on a connected stream
StopActs(streamConnected) == streamConnected

\* lines 132-141
Stop ==
    /\ pc = "idle"
    /\ lastCall' = "stop"
    /\ ret' = 0
    /\ IF StopActs(rawConnected)
       THEN LET state == engState
                q == <<Op("client.connected", Bool(rawConnected), 0, ""),
                       Op("br_ssl_engine_current_state", state, 0, "")>>
            IN  /\ ops' = q \o StopCalls(state)
                /\ IF CountOp(StopCalls(state), "br_sslio_close") > 0
                   THEN \* close-notify sent, pending data dropped
                        /\ engState' = BR_SSL_CLOSED
                        /\ outBuf' = <<>>
                        /\ inBuf' = <<>>
                   ELSE UNCHANGED <<engState, outBuf, inBuf>>
                /\ rawConnected' = FALSE
       ELSE /\ ops' = <<Op("client.connected", 0, 0, "")>>
            /\ UNCHANGED <<rawConnected, engState, outBuf, inBuf>>
    /\ UNCHANGED <<pc, eng, ecKey, ecCert, wbuf, boff, written, stall, rx,
                   rtClean>>

\* connected() reporting every state that is not ready to send as closed
ConnectedNeedsSendapp(state) == ~HasBit(state, BR_SSL_SENDAPP)

\* line 151: state == BR_SSL_CLOSED
ConnectedSeesClosed(state) == state = BR_SSL_CLOSED

\* lines 143-156
Connected ==
    /\ pc = "idle"
    /\ lastCall' = "connected"
    /\ IF ~rawConnected
       THEN /\ ret' = 0
            /\ ops' = <<Op("client.connected", 0, 0, "")>>
       ELSE LET state == engState IN
            /\ ret' = IF ConnectedSeesClosed(state) THEN 0 ELSE 1
            /\ ops' = <<Op("client.connected", 1, 0, ""),
                        Op("br_ssl_engine_current_state", state, 0, "")>>
    /\ UNCHANGED <<pc, rawConnected, engState, eng, ecKey, ecCert, outBuf,
                   inBuf, wbuf, boff, written, stall, rx, rtClean>>

\* the peer or the network drops the raw stream
RawDrop ==
    /\ rawConnected
    /\ rawConnected' = FALSE
    /\ UNCHANGED <<pc, engState, eng, ecKey, ecCert, outBuf, inBuf, wbuf,
                   boff, written, stall, rx, rtClean, lastCall, ret, ops>>

---------------------------------------------------------------------------
(* The record I/O adapter as the data path sees it *)

Min(a, b) == IF a < b THEN a ELSE b

SubSeqFrom(s, from, n) == SubSeq(s, from + 1, Min(Len(s), from + n))

\* what br_sslio_write(ctx, src, len) can return: -1 once the engine has
\* failed, else the number of bytes it took (at most len)
AdapterWriteResults(len) ==
    IF engState = BR_SSL_CLOSED THEN {-1} ELSE {-1} \cup (0 .. len)

\* br_sslio_flush on the session as it is
AdapterFlush == FlushOutcomes(engState, rawConnected \/ outBuf = <<>>)

\* the bytes the adapter copies when it takes n bytes starting at buf + off
\* of a caller buffer holding p: bytes past the end of p are whatever
\* memory holds there
BytesTaken(p, off, n) ==
    LET inside == SubSeqFrom(p, off, n)
        past == n - Len(inside)
    IN  {inside \o g : g \in [1 .. past -> Byte]}

\* the peer echoes every flushed byte back
Echo(flushed) == flushed

---------------------------------------------------------------------------
(* write(buf, size) *)

\* line 67: entry
WriteCall ==
    /\ pc = "idle"
    /\ eng.bound
    /\ Len(outBuf) + Len(inBuf) <= MaxPending
    /\ \E size \in 0 .. MaxLen : \E p \in [1 .. size -> Byte] : wbuf' = p
    /\ boff' = 0
    /\ written' = 0
    /\ stall' = 0
    /\ rx' = <<>>
    /\ rtClean' = (rawConnected /\ engState # BR_SSL_CLOSED
                   /\ outBuf = <<>> /\ inBuf = <<>>)
    /\ lastCall' = "write"
    /\ ret' = 0
    /\ ops' = <<>>
    /\ pc' = "write_loop"
    /\ UNCHANGED <<rawConnected, engState, eng, ecKey, ecCert, outBuf, inBuf>>

\* line 70: the length write() passes to br_sslio_write
WriteRequest(size, done) == size

\* line 76 without the addition
WriteAdvanceLost(done, result) == done

\* line 76: written += result
WriteAdvance(done, result) == done + result

\* lines 69-78: one iteration of the loop.  A call from which the adapter
\* takes nothing leaves buf and written as they were and the loop repeats
\* it; stall counts these calls, the log keeps the others.
WriteIter ==
    /\ pc = "write_loop"
    /\ written < Len(wbuf)
    /\ LET len == WriteRequest(Len(wbuf), written) IN
       \E result \in AdapterWriteResults(len) :
          IF result < 0
          THEN /\ pc' = "write_tail"
               /\ engState' = BR_SSL_CLOSED
               /\ ops' = Append(ops, Op("br_sslio_write", result, len, ""))
               /\ stall' = 0
               /\ UNCHANGED <<outBuf, boff, written>>
          ELSE IF result = 0
          THEN /\ stall < MaxStall
               /\ stall' = stall + 1
               /\ boff' = boff + result
               /\ written' = WriteAdvance(written, result)
               /\ UNCHANGED <<pc, engState, ops, outBuf>>
          ELSE /\ \E taken \in BytesTaken(wbuf, boff, result) :
                     outBuf' = outBuf \o taken
               /\ boff' = boff + result
               /\ written' = WriteAdvance(written, result)
               /\ ops' = Append(ops, Op("br_sslio_write", result, len, ""))
               /\ stall' = 0
               /\ UNCHANGED <<pc, engState>>
    /\ UNCHANGED <<rawConnected, eng, ecKey, ecCert, inBuf, wbuf, rx, rtClean,
                   lastCall, ret>>

\* write() flushing whatever the loop achieved
WriteFlushesAlways(done, size) == TRUE

\* line 80: the condition under which write() flushes
WriteFlushes(done, size) == done = size

\* line 81 / line 84: the count write() returns
WriteReturn(done, flushFailed) == IF flushFailed THEN 0 ELSE done

\* lines 80-84: after the loop
WriteTail ==
    /\ \/ pc = "write_tail"
       \/ pc = "write_loop" /\ ~(written < Len(wbuf))
    /\ IF WriteFlushes(written, Len(wbuf))
       THEN \E f \in AdapterFlush :
               /\ ops' = Append(ops, Op("br_sslio_flush", f[1], 0, ""))
               /\ ret' = WriteReturn(written, f[1] < 0)
               /\ engState' = f[2]
               /\ IF f[1] < 0
                  THEN UNCHANGED <<outBuf, inBuf>>
                  ELSE /\ outBuf' = <<>>
                       /\ inBuf' = inBuf \o Echo(outBuf)
       ELSE /\ ret' = WriteReturn(written, FALSE)
            /\ UNCHANGED <<ops, engState, outBuf, inBuf>>
    /\ pc' = "idle"
    /\ UNCHANGED <<rawConnected, eng, ecKey, ecCert, wbuf, boff, written,
                   stall, rx,
                   rtClean, lastCall>>

---------------------------------------------------------------------------
(* read(buf, size) and flush() *)

\* lines 109-112: a proxy for br_sslio_read, which returns 0 for size 0, -1
\* when the engine fails before any byte is there, else 1..size bytes
Read ==
    /\ pc = "idle"
    /\ eng.bound
    /\ lastCall' = "read"
    /\ \E size \in 0 .. MaxLen :
          IF size = 0
          THEN /\ ret' = 0
               /\ ops' = <<Op("br_sslio_read", 0, size, "")>>
               /\ UNCHANGED <<engState, inBuf, rx>>
          ELSE IF engState = BR_SSL_CLOSED \/ inBuf = <<>>
          THEN /\ ret' = -1
               /\ ops' = <<Op("br_sslio_read", -1, size, "")>>
               /\ engState' = BR_SSL_CLOSED
               /\ UNCHANGED <<inBuf, rx>>
          ELSE \E k \in 1 .. Min(size, Len(inBuf)) :
               /\ ret' = k
               /\ ops' = <<Op("br_sslio_read", k, size, "")>>
               /\ rx' = rx \o SubSeq(inBuf, 1, k)
               /\ inBuf' = SubSeq(inBuf, k + 1, Len(inBuf))
               /\ UNCHANGED engState
    /\ UNCHANGED <<pc, rawConnected, eng, ecKey, ecCert, outBuf, wbuf, boff,
                   written, stall, rtClean>>

\* lines 125-130
Flush ==
    /\ pc = "idle"
    /\ eng.bound
    /\ lastCall' = "flush"
    /\ ret' = 0
    /\ \E f \in AdapterFlush :
          /\ ops' = <<Op("br_sslio_flush", f[1], 0, ""),
                      Op("client.flush", 0, 0, "")>>
          /\ engState' = f[2]
          /\ IF f[1] < 0
             THEN UNCHANGED <<outBuf, inBuf>>
             ELSE /\ outBuf' = <<>>
                  /\ inBuf' = inBuf \o Echo(outBuf)
    /\ UNCHANGED <<pc, rawConnected, eng, ecKey, ecCert, wbuf, boff, written,
                   stall,
                   rx, rtClean>>

---------------------------------------------------------------------------
(* available() *)

\* what br_sslio_read_available can return: a negative value when the
\* engine has failed or has nothing to give, else a count of the plaintext
\* bytes that are ready, at most what the peer has sent
AdapterAvailableResults ==
    IF engState = BR_SSL_CLOSED
    THEN {-2, -1}
    ELSE {-2, -1} \cup (0 .. Len(inBuf))

\* available() handing the adapter's result through
AvailableUnclamped(result) == result

\* lines 91-95: a negative result becomes 0
AvailableReturn(result) == IF result < 0 THEN 0 ELSE result

\* lines 87-96
Available ==
    /\ pc = "idle"
    /\ eng.bound
    /\ lastCall' = "available"
    /\ \E result \in AdapterAvailableResults :
          /\ ret' = AvailableReturn(result)
          /\ ops' = <<Op("br_sslio_read_available", result, 0, "")>>
    /\ UNCHANGED <<pc, rawConnected, engState, eng, ecKey, ecCert, outBuf,
                   inBuf, wbuf, boff, written, stall, rx, rtClean>>

---------------------------------------------------------------------------
(* The callbacks the adapter is bound to: the engine calls them with a
   buffer of len bytes whenever it has records to move *)

\* what Client::read(buf, len) can return: -1 when nothing is there, else
\* the number of bytes it stored
StreamReadResults(len) == {-1} \cup (0 .. len)

\* what Client::write(buf, len) can return: the number of bytes it took
StreamWriteResults(len) == 0 .. len

\* clientRead handing the stream's result through
ClientReadUnmapped(result) == result

\* lines 236-238 and 255: -1 from the stream becomes 0
ClientReadReturn(result) == IF result = -1 THEN 0 ELSE result

\* lines 227-256
ClientRead ==
    /\ pc = "idle"
    /\ eng.bound
    /\ lastCall' = "clientRead"
    /\ \E len \in 1 .. MaxLen :
          IF ~rawConnected
          THEN /\ ret' = -1
               /\ ops' = <<Op("client.connected", 0, 0, "")>>
          ELSE \E result \in StreamReadResults(len) :
               /\ ret' = ClientReadReturn(result)
               /\ ops' = <<Op("client.connected", 1, 0, ""),
                           Op("client.read", result, len, "")>>
    /\ UNCHANGED <<pc, rawConnected, engState, eng, ecKey, ecCert, outBuf,
                   inBuf, wbuf, boff, written, stall, rx, rtClean>>

\* clientWrite handing the stream's result through
ClientWriteUnmapped(result) == result

\* lines 282-286: a write of zero bytes becomes -1
ClientWriteReturn(result) == IF result = 0 THEN -1 ELSE result

\* lines 258-287
ClientWrite ==
    /\ pc = "idle"
    /\ eng.bound
    /\ lastCall' = "clientWrite"
    /\ \E len \in 1 .. MaxLen :
          IF ~rawConnected
          THEN /\ ret' = -1
               /\ ops' = <<Op("client.connected", 0, 0, "")>>
          ELSE \E result \in StreamWriteResults(len) :
               /\ ret' = ClientWriteReturn(result)
               /\ ops' = <<Op("client.connected", 1, 0, ""),
                           Op("client.write", result, len, "")>>
    /\ UNCHANGED <<pc, rawConnected, engState, eng, ecKey, ecCert, outBuf,
                   inBuf, wbuf, boff, written, stall, rx, rtClean>>

---------------------------------------------------------------------------

\* every operation of the session
Next ==
    \/ SetEccSlot
    \/ ConnectIp
    \/ ConnectHost
    \/ PollStep
    \/ Stop
    \/ Connected
    \/ WriteCall
    \/ WriteIter
    \/ WriteTail
    \/ Read
    \/ Available
    \/ Flush
    \/ ClientRead
    \/ ClientWrite
    \/ RawDrop

Spec == Init /\ [][Next]_vars

\* connection management: credentials, connect, the poll loop, stop,
\* connected, over every hardware outcome and every engine state; flush()
\* stands for the I/O that moves the engine of an established session
NextConn ==
    \/ SetEccSlot
    \/ ConnectIp
    \/ ConnectHost
    \/ PollStep
    \/ Stop
    \/ Connected
    \/ Flush
    \/ ClientRead
    \/ ClientWrite
    \/ RawDrop

SpecConn == Init /\ [][NextConn]_vars

\* the data path of a session: write, read and flush between a connect and
\* a stop; the data path reads nothing of the credentials or of the hardware
\* provider, so the session is connected on a board without one
NextData ==
    \/ ConnectPlain
    \/ PollStep
    \/ Stop
    \/ WriteCall
    \/ WriteIter
    \/ WriteTail
    \/ Read
    \/ Available
    \/ Flush
    \/ RawDrop

SpecData == Init /\ [][NextData]_vars

---------------------------------------------------------------------------
(* Properties *)

ConnectCalls == {"connect_ip", "connect_host"}

\* some call of o in log returned v
Returned(log, o, v) == \E i \in 1 .. Len(log) : log[i].op = o /\ log[i].n = v

\* the raw connect of the logged connect() succeeded
RawConnectOk ==
    /\ lastCall \in ConnectCalls
    /\ ops # <<>>
    /\ ops[1].op = "client.connect"
    /\ ops[1].n = 1

\* C1: once the raw connect has succeeded connect() enters the poll loop, and
\* leaves it only on a polled state with BR_SSL_SENDAPP (returning 1) or with
\* BR_SSL_CLOSED (returning 0); on a state with neither bit it stays in the
\* loop.
C1_PollLoopExits ==
    [][ /\ ( /\ pc = "idle"
             /\ ops' # ops
             /\ ops' # <<>>
             /\ ops'[1].op = "client.connect"
             /\ ops'[1].n = 1 ) => pc' = "poll"
        /\ pc = "poll" => pc' \in {"poll", "idle"}
        /\ (pc = "poll" /\ pc' = "idle") =>
              /\ ops'[Len(ops')] = Op("br_ssl_engine_current_state", engState, 0, "")
              /\ \/ HasBit(engState, BR_SSL_SENDAPP) /\ ret' = 1
                 \/ HasBit(engState, BR_SSL_CLOSED) /\ ret' = 0
        /\ ( /\ pc = "poll"
             /\ ~HasBit(engState, BR_SSL_SENDAPP)
             /\ ~HasBit(engState, BR_SSL_CLOSED) ) =>
              /\ pc' = "poll"
              /\ engState' = engState
      ]_vars

\* connect() is still in the loop on an engine that shows neither bit
C1_Witness ==
    /\ pc = "poll"
    /\ RawConnectOk
    /\ ~HasBit(engState, BR_SSL_SENDAPP)
    /\ ~HasBit(engState, BR_SSL_CLOSED)

\* C2: a connect() whose raw connect fails returns 0 having made no other
\* call, and leaves the engine, the adapter and the credentials as they were.
C2_RefusedConnectTouchesNothing ==
    [][ ( /\ pc = "idle"
          /\ ops' # ops
          /\ ops' # <<>>
          /\ ops'[1].op = "client.connect"
          /\ ops'[1].n = 0 ) =>
            /\ Len(ops') = 1
            /\ lastCall' \in ConnectCalls
            /\ ret' = 0
            /\ pc' = "idle"
            /\ UNCHANGED <<engState, eng, outBuf, inBuf, ecKey, ecCert>>
      ]_vars

\* a refused reconnect on a session whose engine is configured and open
C2_Witness ==
    /\ pc = "idle"
    /\ lastCall \in ConnectCalls
    /\ Len(ops) = 1
    /\ ops[1].n = 0
    /\ ret = 0
    /\ eng.bound
    /\ engState # BR_SSL_CLOSED

\* C3: connected() returns 0 when the stream reports disconnected; when the
\* stream reports connected it returns 0 if the engine state has the closed
\* bit and 1 for every other state.
C3_Connected ==
    lastCall = "connected" =>
        /\ ops[1].op = "client.connected"
        /\ ops[1].n = 0 => ret = 0 /\ Len(ops) = 1
        /\ ops[1].n = 1 =>
              /\ Len(ops) = 2
              /\ ops[2].op = "br_ssl_engine_current_state"
              /\ ret = IF HasBit(ops[2].n, BR_SSL_CLOSED) THEN 0 ELSE 1

\* connected() is 0 on a connected stream whose engine is closed
C3_Witness ==
    /\ lastCall = "connected"
    /\ Len(ops) = 2
    /\ ops[1].n = 1
    /\ ops[2].n = BR_SSL_CLOSED
    /\ ret = 0

\* C4: stop() on a connected stream stops the stream exactly once; it calls
\* br_sslio_close, once and before the stream's stop, exactly when the
\* engine state does not have the closed bit.
C4_StopClosesFirst ==
    (lastCall = "stop" /\ ops[1].n = 1) =>
        LET state == ops[2].n
            iClose == IndexOf(ops, "br_sslio_close")
            iStop == IndexOf(ops, "client.stop")
        IN  /\ ops[2].op = "br_ssl_engine_current_state"
            /\ CountOp(ops, "client.stop") = 1
            /\ IF HasBit(state, BR_SSL_CLOSED)
               THEN CountOp(ops, "br_sslio_close") = 0
               ELSE /\ CountOp(ops, "br_sslio_close") = 1
                    /\ iClose < iStop

\* stop() has sent the TLS close and then stopped the stream
C4_Witness ==
    /\ lastCall = "stop"
    /\ Len(ops) = 4
    /\ ops[3].op = "br_sslio_close"
    /\ ops[4].op = "client.stop"
    /\ ~rawConnected

\* C5: stop() on a disconnected stream asks the stream whether it is
\* connected and does nothing else, whatever the engine state: no engine
\* query, no br_sslio_close, no stream stop, nothing changed.
C5_StopDisconnectedIsNoop ==
    [][ (pc = "idle" /\ ~rawConnected /\ lastCall' = "stop") =>
            /\ ops' = <<Op("client.connected", 0, 0, "")>>
            /\ UNCHANGED <<pc, rawConnected, engState, eng, outBuf, inBuf,
                           ecKey, ecCert>>
      ]_vars

\* stop() has left an open, configured engine alone after the stream dropped
C5_Witness ==
    /\ lastCall = "stop"
    /\ ops = <<Op("client.connected", 0, 0, "")>>
    /\ eng.bound
    /\ engState # BR_SSL_CLOSED

\* bytes the adapter accepted over the logged write()
RECURSIVE Accepted(_)
Accepted(log) ==
    IF log = <<>> THEN 0
    ELSE (IF Head(log).op = "br_sslio_write" /\ Head(log).n > 0
          THEN Head(log).n ELSE 0) + Accepted(Tail(log))

WriteReturned == lastCall = "write" /\ pc = "idle"

\* C6: when the adapter has accepted K < size bytes and then returns a
\* negative value, write() returns K and does not flush.
C6_WriteShortCircuit ==
    ( /\ WriteReturned
      /\ Returned(ops, "br_sslio_write", -1)
      /\ Accepted(ops) < Len(wbuf) ) =>
         /\ ret = Accepted(ops)
         /\ CountOp(ops, "br_sslio_flush") = 0

\* write() has returned a partial count K >= 1 after a negative result
C6_Witness ==
    /\ WriteReturned
    /\ Returned(ops, "br_sslio_write", -1)
    /\ Accepted(ops) >= 1
    /\ Accepted(ops) < Len(wbuf)
    /\ ret = Accepted(ops)

\* C7: when the adapter has accepted all size bytes, write() flushes exactly
\* once and returns 0 if the flush fails, size if it succeeds.
C7_FullWriteFlushesOnce ==
    (WriteReturned /\ Accepted(ops) >= Len(wbuf)) =>
        /\ CountOp(ops, "br_sslio_flush") = 1
        /\ ret = IF Returned(ops, "br_sslio_flush", -1) THEN 0 ELSE Len(wbuf)

\* C8: on an established, drained session a write of the payload followed
\* by a flush, with no failure, is read back from the echoing peer as
\* exactly the payload.
C8_RoundTrip ==
    ( /\ pc = "idle"
      /\ lastCall \in {"write", "flush", "read"}
      /\ rtClean
      /\ engState # BR_SSL_CLOSED
      /\ outBuf = <<>> ) =>
         rx \o inBuf = wbuf

\* the connect() in ops made the && chain of line 189 succeed
HwSucceeded ==
    /\ Returned(ops, "ECCX08.begin", 1)
    /\ Returned(ops, "ECCX08.locked", 1)
    /\ Returned(ops, "ECCX08.random", 1)

\* C9: a connect() whose raw connect succeeded injects entropy exactly once,
\* 32 bytes, before the handshake reset; the bytes are the hardware's exactly
\* when begin, locked and random all succeeded and the software fallback's
\* otherwise.
C9_EntropyOnce32 ==
    RawConnectOk =>
        LET i == IndexOf(ops, "br_ssl_engine_inject_entropy")
            r == IndexOf(ops, "br_ssl_client_reset")
        IN  /\ CountOp(ops, "br_ssl_engine_inject_entropy") = 1
            /\ CountOp(ops, "br_ssl_client_reset") = 1
            /\ i < r
            /\ ops[i].n = 32
            /\ ops[i].s = (IF HwSucceeded THEN "hw" ELSE "sw")
            /\ CountOp(ops, "random") = (IF HwSucceeded THEN 0 ELSE 1)
            /\ eng.entropyCount = 1
            /\ eng.entropyLen = 32
            /\ eng.entropySrc = ops[i].s
            /\ eng.seededAtReset

\* random() failed on a begun, locked provider: 32 fallback bytes injected
C9_Witness ==
    /\ RawConnectOk
    /\ Returned(ops, "ECCX08.begin", 1)
    /\ Returned(ops, "ECCX08.locked", 1)
    /\ Returned(ops, "ECCX08.random", 0)
    /\ eng.entropySrc = "sw"
    /\ eng.entropyLen = 32

\* C10: a connect() registers a client certificate only if setEccSlot has
\* set a key slot and a certificate of non-zero length, and then registers
\* that certificate and slot.
C10_ClientCertNeedsBoth ==
    ( /\ RawConnectOk
      /\ \/ CountOp(ops, "br_ssl_client_set_single_ec") > 0
         \/ eng.clientCert ) =>
         /\ ecKey.xlen # 0
         /\ ecCert.data_len # 0
         /\ eng.certLen = ecCert.data_len
         /\ eng.keySlot = ecKey.x

\* the hardware RNG succeeded with a slot and a zero-length certificate
\* configured: no client certificate registered
C10_Witness ==
    /\ RawConnectOk
    /\ HwSucceeded
    /\ ecKey.xlen # 0
    /\ ecCert.data_len = 0
    /\ ~eng.clientCert
    /\ CountOp(ops, "br_ssl_client_set_single_ec") = 0

\* C11: available() never returns a negative count: every negative result
\* of the adapter's read-available call comes back as 0 and every
\* non-negative result comes back unchanged.
C11_AvailableClamped ==
    lastCall = "available" =>
        /\ Len(ops) = 1
        /\ ops[1].op = "br_sslio_read_available"
        /\ ret >= 0
        /\ ops[1].n < 0 => ret = 0
        /\ ops[1].n >= 0 => ret = ops[1].n

\* the adapter answered with a negative value and available() returned 0
C11_Witness ==
    /\ lastCall = "available"
    /\ Returned(ops, "br_sslio_read_available", -2)
    /\ ret = 0

\* C14: clientRead returns -1 without reading when the stream is not
\* connected; otherwise it reads exactly once and returns 0 when the read
\* returned -1 and the stream's result unchanged in every other case.
C14_ClientRead ==
    lastCall = "clientRead" =>
        /\ ops[1].op = "client.connected"
        /\ IF ops[1].n = 0
           THEN /\ ret = -1
                /\ CountOp(ops, "client.read") = 0
           ELSE /\ Len(ops) = 2
                /\ CountOp(ops, "client.read") = 1
                /\ ops[2].op = "client.read"
                /\ ops[2].n = -1 => ret = 0
                /\ ops[2].n # -1 => ret = ops[2].n

\* the stream had nothing to give and clientRead returned 0
C14_Witness ==
    /\ lastCall = "clientRead"
    /\ Returned(ops, "client.read", -1)
    /\ ret = 0

\* C15: clientWrite returns -1 without writing when the stream is not
\* connected; otherwise it writes exactly once and returns -1 when the
\* stream took zero bytes and the count the stream took otherwise; it never
\* returns 0.
C15_ClientWrite ==
    lastCall = "clientWrite" =>
        /\ ret # 0
        /\ ops[1].op = "client.connected"
        /\ IF ops[1].n = 0
           THEN /\ ret = -1
                /\ CountOp(ops, "client.write") = 0
           ELSE /\ Len(ops) = 2
                /\ CountOp(ops, "client.write") = 1
                /\ ops[2].op = "client.write"
                /\ ops[2].n = 0 => ret = -1
                /\ ops[2].n # 0 => ret = ops[2].n

\* the stream took no byte and clientWrite returned -1
C15_Witness ==
    /\ lastCall = "clientWrite"
    /\ Returned(ops, "client.write", 0)
    /\ ret = -1

\* C12: a connect() installs the hardware signature-verification hook
\* exactly when the hardware entropy read succeeded, and the hardware
\* signing hook with the client certificate exactly when the read succeeded
\* and the client identity (certificate and key slot) is configured; on the
\* software fallback neither is installed, whatever is configured.
C12_HooksFollowHardware ==
    RawConnectOk =>
        LET hw == HwSucceeded
            both == hw /\ ClientAuthConfigured
        IN  /\ CountOp(ops, "br_ssl_engine_set_ecdsa") = (IF hw THEN 1 ELSE 0)
            /\ (eng.vrfy = "eccX08_vrfy_asn1") <=> hw
            /\ CountOp(ops, "br_ssl_client_set_single_ec")
                  = (IF both THEN 1 ELSE 0)
            /\ eng.clientCert <=> both
            /\ (eng.sign = "eccX08_sign_asn1") <=> both
            /\ ~hw => /\ eng.vrfy = "default"
                      /\ eng.sign = ""
                      /\ ~eng.clientCert

\* a connect() on the software fallback with the client identity
\* configured: no hook, no client certificate
C12_Witness ==
    /\ RawConnectOk
    /\ ~HwSucceeded
    /\ ClientAuthConfigured
    /\ Returned(ops, "br_ssl_engine_inject_entropy", EntropyLen)
    /\ ~eng.clientCert
    /\ eng.vrfy = "default"

\* the calls every handshake attempt makes once each, in program order
ConfigOrder ==
    <<"client.connect", "arduino_client_profile", "br_ssl_engine_set_buffer",
      "br_ssl_engine_inject_entropy", "br_ssl_client_reset", "br_sslio_init",
      "br_sslio_flush">>

\* log holds each call of ConfigOrder once, in that order, the flush last,
\* with the pinned trust anchor and hint as the hostname of the reset
FullyConfigured(log, hint) ==
    /\ \A k \in 1 .. Len(ConfigOrder) : CountOp(log, ConfigOrder[k]) = 1
    /\ \A k \in 1 .. Len(ConfigOrder) - 1 :
          IndexOf(log, ConfigOrder[k]) < IndexOf(log, ConfigOrder[k + 1])
    /\ IndexOf(log, "br_sslio_flush") = Len(log)
    /\ log[IndexOf(log, "arduino_client_profile")].s = "TA0"
    /\ log[IndexOf(log, "br_ssl_client_reset")].s = hint

\* C13: in every connect/stop cycle, whatever the session went through
\* before, a connect() whose raw connect succeeded performs the whole
\* configuration in order (profile with the pinned trust anchor, buffer,
\* entropy injection, reset with the hostname hint, empty by address,
\* adapter bind, one adapter flush) and then polls, and the configuration it
\* leaves owes nothing to the earlier session; when the poll loop returns
\* success the session is usable: bound, ready to send, not seen as closed.
C13_ReconnectConfiguresAfresh ==
    [][ /\ (pc = "idle" /\ pc' = "poll") =>
              /\ lastCall' \in ConnectCalls
              /\ rawConnected'
              /\ FullyConfigured(ops', IF lastCall' = "connect_ip"
                                       THEN "" ELSE ops'[1].s)
              /\ lastCall' = "connect_host" => ops'[1].s \in Hosts
              /\ eng' = ApplyOps(Unconfigured, ops')
              /\ eng'.bound /\ eng'.resetDone /\ eng'.profile = "TA0"
              /\ outBuf' = <<>> /\ inBuf' = <<>>
        /\ (pc = "poll" /\ pc' = "idle" /\ ret' = 1) =>
              /\ eng'.bound
              /\ HasBit(engState', BR_SSL_SENDAPP)
              /\ ~ConnectedSeesClosed(engState')
              /\ StopNeedsClose(engState')
      ]_vars

\* a connect() by name that configured the engine once and established the
\* session
C13_Witness ==
    /\ RawConnectOk
    /\ lastCall = "connect_host"
    /\ pc = "idle"
    /\ ret = 1
    /\ rawConnected
    /\ eng.host \in Hosts
    /\ eng.entropyCount = 1
    /\ HasBit(engState, BR_SSL_SENDAPP)

\* C16: every br_sslio_write call of write() asks for at most size minus
\* the bytes already written, so that no byte past the end of the caller's
\* buffer is handed to the adapter and the count write() returns never
\* exceeds size.
C16_RequestsStayInBuffer ==
    lastCall = "write" =>
        /\ \A i \in 1 .. Len(ops) :
              ops[i].op = "br_sslio_write" =>
                  ops[i].a <= Len(wbuf) - Accepted(SubSeq(ops, 1, i - 1))
        /\ written <= Len(wbuf)
        /\ WriteReturned => ret <= Len(wbuf)

\* a step that is one iteration of the loop of write() and stays in the loop
\* (the only other step taken there is the stream dropping)
WriteLoopTurn ==
    pc = "write_loop" /\ pc' = "write_loop" /\ rawConnected' = rawConnected

\* C17 as stated: every iteration that stays in the loop of write() has
\* made progress toward size, whatever the adapter returned (negative, zero
\* or positive), so the loop cannot go round without end.
C17_EveryIterationProgresses ==
    [][WriteLoopTurn => written' > written]_vars

\* C17, amended: an adapter result other than zero either adds at least one
\* byte to written or ends the loop, so at most size calls of one write()
\* return something other than zero; a zero result leaves buf, written and
\* the pending output as they were and the loop repeats the call.
C17_NonZeroResultsProgress ==
    /\ [][WriteLoopTurn =>
             \/ written' > written /\ stall' = 0
             \/ /\ stall' = stall + 1
                /\ UNCHANGED <<written, boff, outBuf, ops, engState>>]_vars
    /\ [](lastCall = "write" => CountOp(ops, "br_sslio_write") <= Len(wbuf))

\* the adapter took one byte and then nothing: the loop is where it was
\* after the first call
C17_Witness ==
    /\ lastCall = "write"
    /\ pc = "write_loop"
    /\ written = 1
    /\ Len(wbuf) = 2
    /\ stall = MaxStall
    /\ CountOp(ops, "br_sslio_write") = 1

\* C18: on every engine state reachable once a connect() has configured the
\* engine, the closed test of the poll loop (bit test), the closed test of
\* stop() (bit test) and the closed test of connected() (equality) give the
\* same answer; so connected(), called right after connect() on a stream
\* that is still connected, returns what connect() returned: true after a
\* success, false after a failure out of the poll loop.
C18_ClosedTestsAgree ==
    /\ [](eng.bound =>
             /\ PollSeesClosed(engState) <=> ~StopNeedsClose(engState)
             /\ PollSeesClosed(engState) <=> ConnectedSeesClosed(engState))
    /\ []((RawConnectOk /\ pc = "idle") =>
             (ret = 0 <=> ConnectedSeesClosed(engState)))
    /\ [][(/\ RawConnectOk
           /\ pc = "idle"
           /\ rawConnected
           /\ lastCall' = "connected") => ret' = ret]_vars

\* connect() has just failed out of the poll loop on a stream that is still
\* connected: the three tests all see the engine as closed
C18_Witness ==
    /\ RawConnectOk
    /\ pc = "idle"
    /\ ret = 0
    /\ rawConnected
    /\ PollSeesClosed(engState)
    /\ ~StopNeedsClose(engState)
    /\ ConnectedSeesClosed(engState)

\* the poll loop has read a state with neither SENDAPP nor CLOSED
PollWaiting == pc = "poll" /\ PollOutcome(engState) = "again"

\* C19: the handshake wait of connect() makes progress on its own: when the
\* state left by the adapter flush has neither the ready-to-send bit nor the
\* closed bit, something the loop does, or something interleaved with it,
\* moves the engine, so that the loop comes to see one of the two bits and
\* connect() returns once the peer has completed the handshake or closed.
C19_PollingAdvancesEngine ==
    PollWaiting => ENABLED (NextConn /\ engState' # engState)

\* connect() has returned failure
ConnectFailed == lastCall \in ConnectCalls /\ pc = "idle" /\ ret = 0

\* C20: whenever connect() returns failure the raw stream is not left
\* connected: a handshake failure stops the stream, so nothing stays open
\* after a failed connect and no later stop() is needed.
C20_FailedConnectLeavesNoStream == ConnectFailed => ~rawConnected

\* C20, amended: when connect() returns failure because the raw connect
\* failed the stream is not connected and nothing else was called; when it
\* returns failure out of the poll loop it has not stopped the stream: the
\* failing turn of the loop leaves the stream as it was, connected unless
\* the peer dropped it, and makes no call on it, and the engine is closed.
C20_HandshakeFailureKeepsStream ==
    /\ []((ConnectFailed /\ ~RawConnectOk) => ~rawConnected)
    /\ [](ConnectFailed =>
             /\ CountOp(ops, "client.stop") = 0
             /\ RawConnectOk => engState = BR_SSL_CLOSED)
    /\ [][(pc = "poll" /\ pc' = "idle" /\ ret' = 0) =>
             /\ rawConnected' = rawConnected
             /\ ops' = Append(ops, Op("br_ssl_engine_current_state",
                                      BR_SSL_CLOSED, 0, ""))]_vars

\* connect() has failed out of the poll loop and the stream it opened is
\* still connected
C20_Witness ==
    /\ ConnectFailed
    /\ RawConnectOk
    /\ Returned(ops, "client.connect", 1)
    /\ Returned(ops, "br_ssl_engine_current_state", BR_SSL_CLOSED)
    /\ rawConnected

====
